---------------------------- MODULE Spec2Model ----------------------------
(***************************************************************************)
(* A model of Enigma.py: the two-rotor Enigma machine (Rotor I, Rotor II,  *)
(* reflector UKW-B, plugboard).                                            *)
(*                                                                         *)
(* A Python string is a sequence of characters; a character is a string    *)
(* atom.  Besides the ASCII characters the model knows four characters on  *)
(* which Python's str methods differ from the ASCII intuition:             *)
(*   "E_ACUTE" / "e_acute"  U+00C9 / U+00E9: isalpha(), not in A-Z          *)
(*   "eszett"               U+00DF: isalpha(), upper() is the two chars SS  *)
(*   "sup2"                 U+00B2: isdigit(), but int() raises ValueError  *)
(* The text of an exception is a string; where the code puts a Python      *)
(* string into the text, the names of its characters are concatenated.     *)
(***************************************************************************)
EXTENDS Integers, Sequences, FiniteSets, TLC

VARIABLES
    args,        \* the constructor arguments (ring_settings, plugboard, initial_settings)
    enigma,      \* the EnigmaMachine object: rotor1, rotor2, plugboard, initial_settings
    error,       \* the exception that ended the last operation, or NoError
    plainText,   \* the message of the last Encrypt call
    cipherText,  \* the string the last Encrypt call returned
    signal,      \* the last direct call of a rotor's substitution and its result
    calls        \* number of operations made on the machine (bounded)

vars == <<args, enigma, error, plainText, cipherText, signal, calls>>

-----------------------------------------------------------------------------
(* Characters and the str methods the program uses *)

ascii_uppercase ==
    << "A","B","C","D","E","F","G","H","I","J","K","L","M",
       "N","O","P","Q","R","S","T","U","V","W","X","Y","Z" >>

ascii_lowercase ==
    << "a","b","c","d","e","f","g","h","i","j","k","l","m",
       "n","o","p","q","r","s","t","u","v","w","x","y","z" >>

ascii_digits == << "0","1","2","3","4","5","6","7","8","9" >>

Range(s) == { s[i] : i \in DOMAIN s }

IndexOf(s, c) == CHOOSE i \in DOMAIN s : s[i] = c

Letters == Range(ascii_uppercase)

LowercaseLetters == Range(ascii_lowercase)

DecimalDigits == Range(ascii_digits)

\* the characters of which str.isalpha() is true
AlphaChars == Letters \cup LowercaseLetters \cup {"E_ACUTE", "e_acute", "eszett"}

\* the characters of which str.isdigit() is true
DigitChars == DecimalDigits \cup {"sup2"}

\* str.isalpha() of one character
IsAlphaChar(c) == c \in AlphaChars

\* str.isdigit() of one character
IsDigitChar(c) == c \in DigitChars

\* str.isalpha(): non-empty and every character alphabetic
isalpha(s) == Len(s) > 0 /\ \A i \in DOMAIN s : IsAlphaChar(s[i])

\* str.isdigit(): non-empty and every character a digit
isdigit(s) == Len(s) > 0 /\ \A i \in DOMAIN s : IsDigitChar(s[i])

\* str.upper() of one character (a string: the eszett becomes two characters)
UpperChar(c) ==
    IF c \in LowercaseLetters THEN << ascii_uppercase[IndexOf(ascii_lowercase, c)] >>
    ELSE IF c = "e_acute" THEN << "E_ACUTE" >>
    ELSE IF c = "eszett" THEN << "S", "S" >>
    ELSE << c >>

RECURSIVE upper(_)
upper(s) == IF s = << >> THEN << >> ELSE UpperChar(Head(s)) \o upper(Tail(s))

Min(S) == CHOOSE i \in S : \A j \in S : i <= j

\* the k-th smallest element of a set of numbers
Kth(S, k) == CHOOSE p \in S : Cardinality({ q \in S : q < p }) = k - 1

\* str.split(' '): the pieces between single spaces; the empty string gives ['']
split(s) ==
    LET cuts == { 0 } \cup { i \in DOMAIN s : s[i] = " " } \cup { Len(s) + 1 }
    IN  [ k \in 1..(Cardinality(cuts) - 1) |->
            SubSeq(s, Kth(cuts, k) + 1, Kth(cuts, k + 1) - 1) ]

\* int() of the runtime refuses a string of more than 4300 digits
int_max_str_digits == 4300

\* int() writes the repr of its argument into the text of its ValueError with
\* the format %.200R: the first 200 characters of the repr
int_repr_precision == 200

\* the decimal digits s starts with: int() scans them up to the first other
\* character (s has no sign, space or underscore: it passed isdigit())
LeadingDigits(s) ==
    LET other == { i \in DOMAIN s : s[i] \notin DecimalDigits }
    IN  IF other = {} THEN Len(s) ELSE Min(other) - 1

\* int() raises its ValueError for a string of too many digits
IntExceedsLimit(s) == LeadingDigits(s) > int_max_str_digits

\* int() accepts a string of at most 4300 decimal digits; on "sup2" it raises
\* ValueError
IntParses(s) == Len(s) > 0 /\ LeadingDigits(s) = Len(s) /\ ~IntExceedsLimit(s)

\* the digits of s from its first digit other than 0
Significant(s) ==
    LET nonzero == { i \in DOMAIN s : s[i] # "0" }
    IN  IF nonzero = {} THEN << >> ELSE SubSeq(s, Min(nonzero), Len(s))

RECURSIVE Value(_)
Value(s) ==
    IF s = << >> THEN 0
    ELSE 10 * Value(SubSeq(s, 1, Len(s) - 1)) + (IndexOf(ascii_digits, s[Len(s)]) - 1)

\* int(s) of a string int() accepts; the leading zeros add nothing
int(s) == Value(Significant(s))

\* the decimal numeral of a natural number (%d)
RECURSIVE Numeral(_)
Numeral(n) ==
    IF n < 10 THEN << ascii_digits[n + 1] >>
    ELSE Append(Numeral(n \div 10), ascii_digits[(n % 10) + 1])

-----------------------------------------------------------------------------
(* Alphabetic codec *)

\* string.ascii_uppercase.index(letter) raises ValueError when letter is absent
IsUpperLetter(c) == c \in Letters

letter_to_number(letter) == (IndexOf(ascii_uppercase, letter) - 1) + 1

number_to_letter(number) == ascii_uppercase[(number - 1) + 1]

iterate_alphabet == ascii_uppercase

-----------------------------------------------------------------------------
(* Exceptions *)

\* the characters of s as one piece of text (s as an operand of + on str)
RECURSIVE Text(_)
Text(s) ==
    IF s = << >> THEN ""
    ELSE IF Len(s) = 1 THEN s[1]
    ELSE Text(SubSeq(s, 1, Len(s) \div 2)) \o Text(SubSeq(s, Len(s) \div 2 + 1, Len(s)))

\* repr() of a string without quote characters
repr(s) == << "'" >> \o s \o << "'" >>

\* the first n characters of s (the precision of a format)
Truncated(s, n) == IF Len(s) > n THEN SubSeq(s, 1, n) ELSE s

NoError == [type |-> "none", msg |-> ""]
ValueError(m) == [type |-> "ValueError", msg |-> m]
IndexError(m) == [type |-> "IndexError", msg |-> m]
\* str(KeyError(key)) is the repr of the missing key
KeyError(key) == [type |-> "KeyError", msg |-> Text(repr(<< key >>))]

NoSignal == [rotor |-> 0, direction |-> "none", letter |-> "", result |-> ""]

MsgNotFound == "substring not found"
MsgRingInteger == "Ring settings must be integers"
MsgRingRange == "Ring settings must be 1-26 integers"
MsgIntLiteral(s) ==
    "invalid literal for int() with base 10: "
        \o Text(Truncated(repr(s), int_repr_precision))
\* n the number of digits int() counted
MsgIntDigits(n) ==
    "Exceeds the limit (" \o Text(Numeral(int_max_str_digits))
        \o " digits) for integer string conversion: value has " \o Text(Numeral(n))
        \o " digits; use sys.set_int_max_str_digits() to increase the limit"
MsgPlugLength == "Group two letters together for each plug, e.g. 'PD KV TW'"
MsgPlugDuplicate(plug) == "Duplicate letter used in '" \o Text(plug) \o "' plugboard setting"
MsgPlugLetters(plug) ==
    "Only letters are acceptable in plugboard settings. Error: '" \o Text(plug) \o "'"
\* ring_settings[1] on a list of one element; initial_settings[k] past the end
MsgListIndex == "list index out of range"
MsgStringIndex == "string index out of range"

-----------------------------------------------------------------------------
(* Rotor *)

RotorI == << "E","K","M","F","L","G","D","Q","V","Z","N","T","O",
             "W","Y","H","X","U","S","P","A","I","B","R","C","J" >>

RotorII == << "A","J","D","K","S","I","R","U","X","B","L","H","W",
              "T","M","C","Q","G","Z","N","P","Y","F","V","O","E" >>

NoRotor == [error |-> NoError, rotation |-> 0, mapping |-> << >>, ring_setting |-> 0]

\* the raise of Rotor.__init__: no Rotor object comes out of the constructor
NotConstructed(e) == [NoRotor EXCEPT !.error = e]

\* self.ring_setting < 1 or self.ring_setting > 26, decided on the digits: a
\* numeral of more than two significant digits is above 26
OutOfRange(ring_setting) ==
    \/ Len(Significant(ring_setting)) > 2
    \/ int(ring_setting) < 1
    \/ int(ring_setting) > 26

\* Rotor.__init__: the rotor, or the exception raised (in the order the code raises)
Rotor(ring_setting, mapping, initial_setting) ==
    IF ~IsUpperLetter(initial_setting)
    THEN NotConstructed(ValueError(MsgNotFound))
    ELSE IF ~isdigit(ring_setting)
    THEN NotConstructed(ValueError(MsgRingInteger))
    ELSE IF IntExceedsLimit(ring_setting)
    THEN NotConstructed(ValueError(MsgIntDigits(LeadingDigits(ring_setting))))
    ELSE IF ~IntParses(ring_setting)
    THEN NotConstructed(ValueError(MsgIntLiteral(ring_setting)))
    ELSE IF OutOfRange(ring_setting)
    THEN NotConstructed(ValueError(MsgRingRange))
    ELSE [error |-> NoError, rotation |-> letter_to_number(initial_setting),
          mapping |-> mapping, ring_setting |-> int(ring_setting)]

\* rotate without the wrap from 26 to 1 in 1-based positions
rotate_zero_based(rotor) == [rotor EXCEPT !.rotation = (rotor.rotation + 1) % 26]

\* Rotor.rotate
rotate(rotor) == [rotor EXCEPT !.rotation = (rotor.rotation % 26) + 1]

\* Rotor.encrypt_forwards (the index into mapping is 0-based in the code)
encrypt_forwards(rotor, letter) ==
    rotor.mapping[((rotor.rotation - 1 + rotor.ring_setting - 1
                    + letter_to_number(letter) - 1) % 26) + 1]

\* encrypt_backwards without the ring-setting offset
encrypt_backwards_no_ring(rotor, letter) ==
    number_to_letter((((IndexOf(rotor.mapping, letter) - 1) - (rotor.rotation - 1)
                       + 26) % 26) + 1)

\* Rotor.encrypt_backwards (mapping.index is 0-based in the code)
encrypt_backwards(rotor, letter) ==
    number_to_letter((((IndexOf(rotor.mapping, letter) - 1) - (rotor.rotation - 1)
                       - (rotor.ring_setting - 1) + 26) % 26) + 1)

-----------------------------------------------------------------------------
(* EnigmaMachine *)

\* Historical UKW-B reflector mapping
reflector_mapping ==
    << "Y","R","U","H","Q","S","L","D","P","X","N","G","O",
       "K","M","I","E","B","F","Z","C","W","V","J","A","T" >>

\* dict(zip(string.ascii_uppercase, reflector_mapping))
reflector ==
    [ l \in Letters |-> reflector_mapping[IndexOf(ascii_uppercase, l)] ]

\* a dict is a function on its set of keys
EmptyDict == [ k \in {} |-> k ]

Put(d, k, v) == [ x \in (DOMAIN d) \cup {k} |-> IF x = k THEN v ELSE d[x] ]

\* the body of the loop over the plugs with the alphabetic check made before
\* the duplicate check
PlugStepLettersFirst(st, plug) ==
    IF Len(plug) # 2
    THEN [st EXCEPT !.error = ValueError(MsgPlugLength)]
    ELSE IF ~isalpha(plug)
    THEN [st EXCEPT !.error = ValueError(MsgPlugLetters(plug))]
    ELSE IF plug[1] \in DOMAIN st.dict \/ plug[2] \in DOMAIN st.dict
    THEN [st EXCEPT !.error = ValueError(MsgPlugDuplicate(plug))]
    ELSE [st EXCEPT !.dict = Put(Put(st.dict, plug[1], plug[2]), plug[2], plug[1])]

\* the body of the loop over the plugs with the duplicate check made on the
\* first letter of the plug only
PlugStepFirstLetterOnly(st, plug) ==
    IF Len(plug) # 2
    THEN [st EXCEPT !.error = ValueError(MsgPlugLength)]
    ELSE IF plug[1] \in DOMAIN st.dict
    THEN [st EXCEPT !.error = ValueError(MsgPlugDuplicate(plug))]
    ELSE IF ~isalpha(plug)
    THEN [st EXCEPT !.error = ValueError(MsgPlugLetters(plug))]
    ELSE [st EXCEPT !.dict = Put(Put(st.dict, plug[1], plug[2]), plug[2], plug[1])]

\* the body of the loop over the plugs; st = [dict, error]
PlugStep(st, plug) ==
    IF Len(plug) # 2
    THEN [st EXCEPT !.error = ValueError(MsgPlugLength)]
    ELSE IF plug[1] \in DOMAIN st.dict \/ plug[2] \in DOMAIN st.dict
    THEN [st EXCEPT !.error = ValueError(MsgPlugDuplicate(plug))]
    ELSE IF ~isalpha(plug)
    THEN [st EXCEPT !.error = ValueError(MsgPlugLetters(plug))]
    ELSE [st EXCEPT !.dict = Put(Put(st.dict, plug[1], plug[2]), plug[2], plug[1])]

RECURSIVE PlugLoop(_, _)
PlugLoop(st, plugs) ==
    IF plugs = << >> THEN st
    ELSE LET next == PlugStep(st, Head(plugs))
         IN  IF next.error # NoError THEN next      \* the raise leaves the loop
             ELSE PlugLoop(next, Tail(plugs))

\* add the rest of the letters as themselves on the plugboard
FillPlugboard(d) ==
    [ x \in (DOMAIN d) \cup Range(iterate_alphabet) |-> IF x \in DOMAIN d THEN d[x] ELSE x ]

\* the plugboard part of EnigmaMachine.__init__: [dict, error]
Plugboard(plugboard) ==
    LET up == upper(plugboard)
        st == IF Len(up) > 0
              THEN PlugLoop([dict |-> EmptyDict, error |-> NoError], split(up))
              ELSE [dict |-> EmptyDict, error |-> NoError]
    IN  [st EXCEPT !.dict = FillPlugboard(st.dict)]

NoMachine ==
    [ built |-> FALSE, error |-> NoError, rotor1 |-> NoRotor, rotor2 |-> NoRotor,
      plugboard |-> EmptyDict, initial_settings |-> << >> ]

Failed(e) == [NoMachine EXCEPT !.error = e]

\* EnigmaMachine.__init__: the machine, or the exception that aborts construction
EnigmaMachine(ring_settings, plugboard, initial_settings) ==
    LET rs   == split(ring_settings)
        init == upper(initial_settings)
    IN  IF Len(init) < 1 THEN Failed(IndexError(MsgStringIndex))
        ELSE LET r1 == Rotor(rs[1], RotorI, init[1])
             IN  IF r1.error # NoError THEN Failed(r1.error)
                 ELSE IF Len(rs) < 2 THEN Failed(IndexError(MsgListIndex))
                 ELSE IF Len(init) < 2 THEN Failed(IndexError(MsgStringIndex))
                 ELSE LET r2 == Rotor(rs[2], RotorII, init[2])
                      IN  IF r2.error # NoError THEN Failed(r2.error)
                          ELSE LET pb == Plugboard(plugboard)
                               IN  IF pb.error # NoError THEN Failed(pb.error)
                                   ELSE [ built |-> TRUE, error |-> NoError,
                                          rotor1 |-> r1, rotor2 |-> r2,
                                          plugboard |-> pb.dict,
                                          initial_settings |-> init ]

\* the path without the second pass through the plugboard
TransformOnePlugboardPass(m, r1, r2, letter) ==
    LET letter1 == m.plugboard[letter]
        letter2 == encrypt_forwards(r1, letter1)
        letter3 == encrypt_forwards(r2, letter2)
        letter4 == reflector[letter3]
        letter5 == encrypt_backwards(r2, letter4)
        letter6 == encrypt_backwards(r1, letter5)
    IN  letter6

\* the path without the reflector
TransformNoReflector(m, r1, r2, letter) ==
    LET letter1 == m.plugboard[letter]
        letter2 == encrypt_forwards(r1, letter1)
        letter3 == encrypt_forwards(r2, letter2)
        letter5 == encrypt_backwards(r2, letter3)
        letter6 == encrypt_backwards(r1, letter5)
        letter7 == m.plugboard[letter6]
    IN  letter7

\* the path of one letter through the machine with the rotors r1, r2:
\* plugboard, rotor1, rotor2, reflector, rotor2, rotor1, plugboard
Transform(m, r1, r2, letter) ==
    LET letter1 == m.plugboard[letter]
        letter2 == encrypt_forwards(r1, letter1)
        letter3 == encrypt_forwards(r2, letter2)
        letter4 == reflector[letter3]
        letter5 == encrypt_backwards(r2, letter4)
        letter6 == encrypt_backwards(r1, letter5)
        letter7 == m.plugboard[letter6]
    IN  letter7

\* the stepping with the turnover read after rotor1 has stepped
StepTurnoverAfter(r1, r2) ==
    [ rotor1 |-> rotate(r1),
      rotor2 |-> IF number_to_letter(rotate(r1).rotation) = "Q" THEN rotate(r2) ELSE r2 ]

\* the rotors after the stepping of one keystroke: rotor2 steps when rotor1
\* shows Q before rotor1 steps
Step(r1, r2) ==
    [ rotor1 |-> rotate(r1),
      rotor2 |-> IF number_to_letter(r1.rotation) = "Q" THEN rotate(r2) ELSE r2 ]

\* the grouping with the space put after the letter that starts a group
EmitSpaceAfterFirst(st, letter7) ==
    [st EXCEPT !.cipherText = IF st.letter_count = 0
                              THEN st.cipherText \o << letter7, " " >>
                              ELSE Append(st.cipherText, letter7),
               !.letter_count = (st.letter_count + 1) % 5]

\* cipherText += letter7, and a space after every fifth letter
Emit(st, letter7) ==
    [st EXCEPT !.cipherText = IF (st.letter_count + 1) % 5 = 0
                              THEN st.cipherText \o << letter7, " " >>
                              ELSE Append(st.cipherText, letter7),
               !.letter_count = (st.letter_count + 1) % 5]

\* the body of the loop of Encrypt for an alphabetic character.
\* self.plugboard[letter] raises KeyError for a letter that is no key, and
\* letter_to_number raises ValueError for a plugboard image outside A-Z.
Keystroke(m, st, letter) ==
    LET s == Step(st.rotor1, st.rotor2)
        stepped == [st EXCEPT !.rotor1 = s.rotor1, !.rotor2 = s.rotor2]
    IN  IF letter \notin DOMAIN m.plugboard
        THEN [stepped EXCEPT !.error = KeyError(letter)]
        ELSE IF ~IsUpperLetter(m.plugboard[letter])
        THEN [stepped EXCEPT !.error = ValueError(MsgNotFound)]
        ELSE Emit(stepped, Transform(m, s.rotor1, s.rotor2, letter))

\* the body of the loop with the grouping counter advanced by every character
EncryptLetterCountsAll(m, st, letter) ==
    IF ~IsAlphaChar(letter)
    THEN [st EXCEPT !.cipherText = IF (st.letter_count + 1) % 5 = 0
                                   THEN Append(st.cipherText, " ") ELSE st.cipherText,
                    !.letter_count = (st.letter_count + 1) % 5]
    ELSE Keystroke(m, st, letter)

\* the body of the loop of Encrypt for one character of the message;
\* st = [rotor1, rotor2, cipherText, letter_count, error], m the machine
EncryptLetter(m, st, letter) ==
    IF ~IsAlphaChar(letter) THEN st ELSE Keystroke(m, st, letter)

RECURSIVE EncryptLoop(_, _, _)
EncryptLoop(m, st, message) ==
    IF message = << >> THEN st
    ELSE LET next == EncryptLetter(m, st, Head(message))
         IN  IF next.error # NoError THEN next      \* the exception leaves the loop
             ELSE EncryptLoop(m, next, Tail(message))

\* EnigmaMachine.Encrypt on machine m: the locals when the loop ends
Encrypt(m, message) ==
    EncryptLoop(m, [rotor1 |-> m.rotor1, rotor2 |-> m.rotor2, cipherText |-> << >>,
                    letter_count |-> 0, error |-> NoError], message)

-----------------------------------------------------------------------------
(* Bounds and the inputs the operations are called with *)

MaxCalls == 2      \* operations that change the rotors, per machine
MaxMsgLen == 3     \* length of the enumerated messages
MaxPlugLen == 5    \* length of the enumerated plugboard strings
MaxLongLen == 31   \* length of the long messages

RECURSIVE Strings(_, _)
Strings(chars, n) ==
    IF n = 0 THEN { << >> }
    ELSE LET shorter == Strings(chars, n - 1)
         IN  shorter \cup { Append(s, c) : s \in { t \in shorter : Len(t) = n - 1 }, c \in chars }

NoArgs == [ring_settings |-> << >>, plugboard |-> << >>, initial_settings |-> << >>]

\* the string of n characters c
Repeat(c, n) == [ i \in 1..n |-> c ]

\* among the ring settings: one digit more than int() reads, and a string
\* int() refuses whose repr is longer than the text of the error shows
RingArgs ==
    { Repeat("1", int_max_str_digits + 1),
      <<"1"," ">> \o Repeat("1", int_repr_precision) \o <<"sup2">>,
      <<"5"," ","2","4">>,
      <<"0","5"," ","7">>,
      <<"0"," ","1">>,
      <<"1"," ","2","7">>,
      <<"x"," ","1">>,
      <<"1">>,
      <<"1"," ","sup2">>,
      <<"-","1"," ","1">>,
      <<>> }

PlugArgs ==
    { <<"A","B"," ","C","D">>,
      <<"E_ACUTE","B">>,
      <<"A","B"," ","A","C">> }

InitialArgs ==
    { <<"P","Z">>,
      <<"z","q">>,
      <<"A","1">>,
      <<"A">> }

MsgChars == { "H", "1" }

Messages ==
    Strings(MsgChars, MaxMsgLen)
    \cup { <<"Q">>,
      <<"a">>,
      <<"E_ACUTE">>,
      <<" ">>,
      <<"H","E","L","L","O">>,
      <<"A","B"," ","1","2"," ","C","D">>,
      <<"A","B","C","D">>,
      <<"H","E","-","L","L","0"," ","W","O","R","L","D">> }

\* inputs of SpecCipher: valid configurations, messages of letters
CipherRingArgs ==
    { <<"1"," ","1">>,
      <<"5"," ","2","4">>,
      <<"2","6"," ","1","3">> }

CipherPlugArgs ==
    { <<>>,
      <<"A","B"," ","C","D">>,
      <<"I","H"," ","V","X"," ","P","W"," ","L","A"," ","M","E"," ","O","Y"," ","F","B"," ","Q","G"," ","T","D"," ","Z","C">>,
      <<"E_ACUTE","B">> }

CipherInitialArgs ==
    { <<"A","A">>,
      <<"J","W">>,
      <<"P","Z">>,
      <<"q","q">> }

CipherMessages ==
    Strings({"H", "Q"}, MaxMsgLen)
    \cup { << c >> : c \in Letters }
    \cup { <<"H","E","L","L","O">> }

\* inputs of SpecPlug: every plugboard string over PlugChars
PlugChars == { "A", "B", "b", "1", " ", "E_ACUTE", "eszett" }

PlugStrings == Strings(PlugChars, MaxPlugLen)

PlugRingArgs ==
    { <<"5"," ","2","4">>,
      <<"0"," ","1">> }

PlugInitialArgs ==
    { <<"P","Z">> }

PlugMessages ==
    { <<"A","B">>,
      <<"E_ACUTE">> }

\* inputs of SpecLong: one long message on a fresh machine, from every
\* position of rotor1
LongRingArgs ==
    { <<"5"," ","2","4">> }

LongPlugArgs ==
    { <<>>,
      <<"A","B"," ","C","D">> }

LongInitialArgs == { << c, "Z" >> : c \in Letters }

\* the first n characters of a text of letters (pattern 1), or of the same
\* text with a digit in every 4th place (pattern 2)
LongMessage(n, pattern) ==
    [ i \in 1..n |-> IF pattern = 2 /\ i % 4 = 0 THEN "1"
                     ELSE ascii_uppercase[((7 * i) % 26) + 1] ]

LongMessages == { LongMessage(n, pattern) : n \in 0..MaxLongLen, pattern \in {1, 2} }

\* inputs of SpecRotor: every ring setting and every rotation of both rotors
RotorRingArgs == { Numeral(i) \o << " " >> \o Numeral(27 - i) : i \in 1..26 }

RotorPlugArgs ==
    { <<>> }

RotorInitialArgs == { << c, c >> : c \in Letters }

-----------------------------------------------------------------------------
(* Operations *)

Init ==
    /\ args = NoArgs
    /\ enigma = NoMachine
    /\ error = NoError
    /\ plainText = << >>
    /\ cipherText = << >>
    /\ signal = NoSignal
    /\ calls = 0

\* enigma = EnigmaMachine(ring_settings, plugboard, initial_settings)
ConstructWith(a) ==
    /\ args = NoArgs
    /\ args' = a
    /\ enigma' = EnigmaMachine(a.ring_settings, a.plugboard, a.initial_settings)
    /\ error' = enigma'.error
    /\ UNCHANGED <<plainText, cipherText, signal, calls>>

ConstructFrom(RS, PB, IS) ==
    /\ args = NoArgs
    /\ \E rs \in RS, pb \in PB, is \in IS :
        ConstructWith([ring_settings |-> rs, plugboard |-> pb, initial_settings |-> is])

\* enigma.rotor1.rotate()
Rotate1 ==
    /\ enigma.built
    /\ calls < MaxCalls
    /\ enigma' = [enigma EXCEPT !.rotor1 = rotate(enigma.rotor1)]
    /\ error' = NoError
    /\ calls' = calls + 1
    /\ UNCHANGED <<args, plainText, cipherText, signal>>

\* enigma.rotor2.rotate()
Rotate2 ==
    /\ enigma.built
    /\ calls < MaxCalls
    /\ enigma' = [enigma EXCEPT !.rotor2 = rotate(enigma.rotor2)]
    /\ error' = NoError
    /\ calls' = calls + 1
    /\ UNCHANGED <<args, plainText, cipherText, signal>>

RotorOf(m, i) == IF i = 1 THEN m.rotor1 ELSE m.rotor2

\* enigma.rotor<i>.encrypt_forwards(letter)
Forwards(i, letter) ==
    /\ enigma.built
    /\ signal' = [rotor |-> i, direction |-> "forwards", letter |-> letter,
                  result |-> encrypt_forwards(RotorOf(enigma, i), letter)]
    /\ error' = NoError
    /\ UNCHANGED <<args, enigma, plainText, cipherText, calls>>

\* enigma.rotor<i>.encrypt_backwards(letter)
Backwards(i, letter) ==
    /\ enigma.built
    /\ signal' = [rotor |-> i, direction |-> "backwards", letter |-> letter,
                  result |-> encrypt_backwards(RotorOf(enigma, i), letter)]
    /\ error' = NoError
    /\ UNCHANGED <<args, enigma, plainText, cipherText, calls>>

\* cipherText = enigma.Encrypt(message); an exception leaves the rotors as
\* they were stepped and returns nothing
EncryptWith(message) ==
    /\ enigma.built
    /\ calls < MaxCalls
    /\ calls' = calls + 1
    /\ plainText' = message
    /\ UNCHANGED <<args, signal>>
    /\ \E r \in { Encrypt(enigma, message) } :
           /\ enigma' = [enigma EXCEPT !.rotor1 = r.rotor1, !.rotor2 = r.rotor2]
           /\ error' = r.error
           /\ cipherText' = IF r.error = NoError THEN r.cipherText ELSE << >>

Construct == ConstructFrom(RingArgs, PlugArgs, InitialArgs)

EncryptMessage ==
    /\ enigma.built
    /\ calls < MaxCalls
    /\ \E message \in Messages : EncryptWith(message)

RotorForwards == \E i \in {1, 2}, letter \in {"Q"} : Forwards(i, letter)

RotorBackwards == \E i \in {1, 2}, letter \in {"Q"} : Backwards(i, letter)

Next ==
    \/ Construct
    \/ Rotate1
    \/ Rotate2
    \/ RotorForwards
    \/ RotorBackwards
    \/ EncryptMessage

Spec == Init /\ [][Next]_vars

\* valid configurations, messages of letters, any sequence of Encrypt calls
ConstructCipher == ConstructFrom(CipherRingArgs, CipherPlugArgs, CipherInitialArgs)

EncryptCipher ==
    /\ enigma.built
    /\ calls < MaxCalls
    /\ \E message \in CipherMessages : EncryptWith(message)

NextCipher ==
    \/ ConstructCipher
    \/ EncryptCipher

SpecCipher == Init /\ [][NextCipher]_vars

\* construction from every plugboard string, then Encrypt
ConstructPlug == ConstructFrom(PlugRingArgs, PlugStrings, PlugInitialArgs)

EncryptPlug == \E message \in PlugMessages : EncryptWith(message)

NextPlug ==
    \/ ConstructPlug
    \/ EncryptPlug

SpecPlug == Init /\ [][NextPlug]_vars

\* one Encrypt call of a long message on a fresh machine
ConstructLong == ConstructFrom(LongRingArgs, LongPlugArgs, LongInitialArgs)

EncryptLong == calls = 0 /\ \E message \in LongMessages : EncryptWith(message)

NextLong ==
    \/ ConstructLong
    \/ EncryptLong

SpecLong == Init /\ [][NextLong]_vars

\* one substitution of one letter by a rotor of a fresh machine
ConstructRotor == ConstructFrom(RotorRingArgs, RotorPlugArgs, RotorInitialArgs)

ForwardsOnce ==
    signal = NoSignal /\ \E i \in {1, 2}, letter \in Letters : Forwards(i, letter)

BackwardsOnce ==
    signal = NoSignal /\ \E i \in {1, 2}, letter \in Letters : Backwards(i, letter)

NextRotor ==
    \/ ConstructRotor
    \/ ForwardsOnce
    \/ BackwardsOnce

SpecRotor == Init /\ [][NextRotor]_vars

-----------------------------------------------------------------------------
(* Properties *)

\* the exception is one the caller reports as a configuration error
ConfigurationError(e) == e.type = "ValueError"

\* the step is an Encrypt call (of the message plainText')
IsEncryptStep == EncryptWith(plainText')

NotSpace(c) == c # " "

\* the message with every non-alphabetic character removed
AlphaOnly(s) == SelectSeq(s, IsAlphaChar)

\* the string with its grouping spaces removed
WithoutSpaces(s) == SelectSeq(s, NotSpace)

\* C9: the forward and the backward substitution of a rotor are inverse to
\* each other: for both wirings, every rotation, every ring setting and every
\* letter L, sending the result of encrypt_forwards(L) through
\* encrypt_backwards of the same rotor gives L, and the result of
\* encrypt_backwards(L) through encrypt_forwards gives L; the call leaves the
\* machine (rotation, ring setting, wiring) as it was.
C9_RotorInverse ==
    [][ signal' # signal =>
          /\ enigma' = enigma
          /\ signal'.direction = "forwards" =>
                encrypt_backwards(RotorOf(enigma', signal'.rotor), signal'.result)
                    = signal'.letter
          /\ signal'.direction = "backwards" =>
                encrypt_forwards(RotorOf(enigma', signal'.rotor), signal'.result)
                    = signal'.letter ]_vars

\* a backward substitution was made with rotation and ring setting both
\* above 1 and gave a letter other than the one sent in
C9_Witness ==
    /\ signal.direction = "backwards"
    /\ signal.rotor = 2
    /\ enigma.rotor2.rotation = 17
    /\ enigma.rotor2.ring_setting = 24
    /\ signal.result # signal.letter

\* the ring-setting tokens the constructor reads, and its initial letters
RingTokens == split(args.ring_settings)

InitialLetters == upper(args.initial_settings)

\* a ring-setting string the specification accepts: decimal digits, value 1..26
RingSettingValid(token) ==
    /\ isdigit(token)
    /\ Len(token) <= int_max_str_digits
    /\ \A i \in DOMAIN token : token[i] \in DecimalDigits
    /\ Len(Significant(token)) <= 2
    /\ int(token) \in 1..26

TwoInitialLetters ==
    Len(InitialLetters) >= 2 /\ InitialLetters[1] \in Letters /\ InitialLetters[2] \in Letters

\* C8: a rotor exists only with a ring setting in 1..26: when one of the two
\* ring-setting strings is not all digits or its value is outside 1..26 (the
\* initial settings being two letters), construction ends in a configuration
\* error and there is no machine.  In every state of a constructed machine,
\* under any sequence of rotate() and Encrypt calls, both rotations and both
\* ring settings are in 1..26; rotate() maps 26 to 1 and r to r+1 otherwise;
\* no operation changes a ring setting or a wiring.
C8_RotorRange ==
    /\ [](/\ enigma.built =>
                /\ enigma.rotor1.rotation \in 1..26
                /\ enigma.rotor2.rotation \in 1..26
                /\ enigma.rotor1.ring_setting \in 1..26
                /\ enigma.rotor2.ring_setting \in 1..26
          /\ ( /\ args # NoArgs
               /\ TwoInitialLetters
               /\ \/ ~RingSettingValid(RingTokens[1])
                  \/ Len(RingTokens) >= 2 /\ ~RingSettingValid(RingTokens[2]) )
             => ~enigma.built /\ ConfigurationError(error)
                  /\ error.msg \in {MsgRingInteger, MsgRingRange}
                                      \cup { MsgIntLiteral(t) : t \in Range(RingTokens) }
                                      \cup { MsgIntDigits(LeadingDigits(t)) : t \in Range(RingTokens) })
    /\ [][ /\ Rotate1 =>
                enigma'.rotor1.rotation =
                    IF enigma.rotor1.rotation = 26 THEN 1 ELSE enigma.rotor1.rotation + 1
           /\ Rotate2 =>
                enigma'.rotor2.rotation =
                    IF enigma.rotor2.rotation = 26 THEN 1 ELSE enigma.rotor2.rotation + 1
           /\ enigma.built =>
                /\ enigma'.rotor1.ring_setting = enigma.rotor1.ring_setting
                /\ enigma'.rotor2.ring_setting = enigma.rotor2.ring_setting
                /\ enigma'.rotor1.mapping = RotorI
                /\ enigma'.rotor2.mapping = RotorII ]_vars

\* rotor1 was at 26 (initial letter Z) and a rotate() and an Encrypt of two
\* letters later stands at 3, rotor2 having passed no turnover
C8_Witness ==
    /\ enigma.built
    /\ enigma.initial_settings = << "Z", "Q" >>
    /\ enigma.rotor1.rotation = 3
    /\ enigma.rotor2.rotation = 17
    /\ calls = 2
    /\ plainText = << "H", "H" >>

\* C2: non-alphabetic characters have no effect in Encrypt: from any state of
\* the machine, Encrypt(message) ends as Encrypt of the message without its
\* non-alphabetic characters does: the same returned string (or the same
\* exception) and the same rotations of rotor1 and rotor2; a message of
\* non-alphabetic characters only steps no rotor and returns the empty string.
C2_NonAlphaIgnored ==
    [][ IsEncryptStep =>
          \A dropped \in { Encrypt(enigma, AlphaOnly(plainText')) } :
              /\ enigma'.rotor1 = dropped.rotor1
              /\ enigma'.rotor2 = dropped.rotor2
              /\ error' = dropped.error
              /\ error' = NoError => cipherText' = dropped.cipherText
              /\ AlphaOnly(plainText') = << >> =>
                    enigma' = enigma /\ cipherText' = << >> /\ error' = NoError ]_vars

\* "HE-LL0 WORLD" was encrypted: three characters dropped, nine letters
\* emitted, the one space after the fifth letter
C2_Witness ==
    /\ plainText = << "H","E","-","L","L","0"," ","W","O","R","L","D" >>
    /\ error = NoError
    /\ Len(cipherText) = 10
    /\ cipherText[6] = " "
    /\ calls = 2

\* C10: no letter encrypts to itself: in every state of a constructed
\* machine reached by any sequence of Encrypt calls, each ciphertext letter
\* an Encrypt call emits differs from the letter of the message it stands for.
C10_NoFixedLetter ==
    (enigma.built /\ calls > 0 /\ error = NoError) =>
        LET sent    == AlphaOnly(plainText)
            emitted == WithoutSpaces(cipherText)
        IN  /\ Len(emitted) = Len(sent)
            /\ \A k \in DOMAIN sent : emitted[k] # sent[k]

\* the second Encrypt call of a machine with ten plugs emitted a letter for Q
C10_Witness ==
    /\ calls = 2
    /\ error = NoError
    /\ Cardinality({ l \in Letters : enigma.plugboard[l] # l }) = 20
    /\ plainText = << "Q" >>
    /\ Len(cipherText) = 1

\* the configuration is valid: the plugboard pairs letters of A-Z only (the
\* ring settings of a constructed machine are in 1..26, its initial settings
\* two letters)
ValidConfiguration == enigma.built /\ DOMAIN enigma.plugboard = Letters

UppercaseMessage(s) == \A i \in DOMAIN s : s[i] \in Letters

\* a second, freshly constructed machine with the identical configuration
SecondMachine == EnigmaMachine(args.ring_settings, args.plugboard, args.initial_settings)

\* C1: Encrypt is symmetric: for a valid configuration and a message M of
\* uppercase letters, when C is what Encrypt(M) returns on the freshly
\* constructed machine, Encrypt(C) on a second freshly constructed machine of
\* the same configuration returns, its grouping spaces removed, exactly M.
C1_Symmetry ==
    [][ ( /\ calls = 0
          /\ ValidConfiguration
          /\ IsEncryptStep
          /\ UppercaseMessage(plainText') ) =>
             /\ error' = NoError
             /\ enigma = SecondMachine
             /\ \A back \in { Encrypt(SecondMachine, cipherText') } :
                    /\ back.error = NoError
                    /\ WithoutSpaces(back.cipherText) = plainText' ]_vars

\* ring settings "1 1", no plugs, initial settings "AA": HELLO was encrypted
\* to "TJJPK " (five other letters and the grouping space)
C1_Witness ==
    /\ args = [ring_settings |-> << "1", " ", "1" >>, plugboard |-> << >>,
               initial_settings |-> << "A", "A" >>]
    /\ calls = 1
    /\ plainText = << "H", "E", "L", "L", "O" >>
    /\ cipherText = << "T", "J", "J", "P", "K", " " >>

SpacesAt(s) == { j \in DOMAIN s : s[j] = " " }

\* C3: grouping of the output: an Encrypt call that emits n letters returns
\* those n letters with one space right after the 5th, 10th, 15th, ... letter
\* and no other space: n \div 5 spaces, a space at the end exactly when n is
\* a positive multiple of 5; for 12 letters the spaces follow the 5th and the
\* 10th letter and the 11th and 12th letter trail ungrouped.
C3_Grouping ==
    (enigma.built /\ calls > 0 /\ error = NoError) =>
        LET n == Len(AlphaOnly(plainText))
        IN  /\ Len(WithoutSpaces(cipherText)) = n
            /\ Len(cipherText) = n + (n \div 5)
            /\ SpacesAt(cipherText) = { j \in 1..Len(cipherText) : j % 6 = 0 }
            /\ Cardinality(SpacesAt(cipherText)) = n \div 5
            /\ (n > 0 /\ n % 5 = 0) <=>
                   (cipherText # << >> /\ cipherText[Len(cipherText)] = " ")
            /\ n = 12 => /\ SpacesAt(cipherText) = {6, 12}
                         /\ Len(cipherText) = 14
                         /\ IsAlphaChar(cipherText[13]) /\ IsAlphaChar(cipherText[14])

\* a message of 16 characters, 12 of them letters, was encrypted
C3_Witness ==
    /\ calls = 1
    /\ error = NoError
    /\ Len(plainText) = 16
    /\ Len(AlphaOnly(plainText)) = 12
    /\ Len(cipherText) = 14

\* the locals of the loop of Encrypt on machine m before the first keystroke
\* and after each keystroke: KeystrokeStates(m, letters)[k + 1] after k letters
RECURSIVE LoopStates(_, _, _)
LoopStates(m, st, letters) ==
    IF letters = << >> THEN << st >>
    ELSE LET next == EncryptLetter(m, st, Head(letters))
         IN  IF next.error # NoError THEN << st, next >>
             ELSE << st >> \o LoopStates(m, next, Tail(letters))

KeystrokeStates(m, letters) == LoopStates(m, Encrypt(m, << >>), letters)

\* the keystrokes of letters on machine m, states being the locals of the
\* loop before and after each of them, step the rotors as C4 says
SteppingAsClaimed(m, letters, states) ==
    LET n == Len(letters)
        before(k) == states[k]
        after(k)  == states[k + 1]
        Stepped2(k) == after(k).rotor2 # before(k).rotor2
    IN  /\ Len(states) = n + 1
        /\ \A k \in 1..n :
              /\ after(k).rotor1 = rotate(before(k).rotor1)
              /\ before(k).rotor1.rotation = 17 =>
                    after(k).rotor2 = rotate(before(k).rotor2)
              /\ before(k).rotor1.rotation # 17 =>
                    after(k).rotor2 = before(k).rotor2
              /\ WithoutSpaces(after(k).cipherText)[k] =
                    Transform(m, after(k).rotor1, after(k).rotor2, letters[k])
        /\ \A k \in 1..(n - 1) : ~(Stepped2(k) /\ Stepped2(k + 1))
        /\ \A k \in 1..(n - 25) :
              Cardinality({ j \in k..(k + 25) : Stepped2(j) }) = 1

\* the last of the states
Last(states) == states[Len(states)]

\* C4: stepping and turnover: at every alphabetic character rotor1 steps
\* once, before the letter is transformed; rotor2 steps once at that
\* keystroke when rotor1 showed Q (position 17) before its step, and is
\* unchanged otherwise; so rotor2 steps exactly once in any 26 consecutive
\* keystrokes and never at two consecutive keystrokes.
C4_Turnover ==
    [][ (IsEncryptStep /\ error' = NoError) =>
          \A letters \in { AlphaOnly(plainText') } :
            \A states \in { KeystrokeStates(enigma, letters) } :
              /\ SteppingAsClaimed(enigma, letters, states)
              /\ enigma'.rotor1 = Last(states).rotor1
              /\ enigma'.rotor2 = Last(states).rotor2 ]_vars

\* 31 letters were encrypted from rotor1 at P: rotor2 stepped at the 2nd and
\* at the 28th keystroke, from Z over A to B
C4_Witness ==
    /\ calls = 1
    /\ error = NoError
    /\ enigma.initial_settings = << "P", "Z" >>
    /\ Len(AlphaOnly(plainText)) = 31
    /\ enigma.rotor1.rotation = 21
    /\ enigma.rotor2.rotation = 2

\* the tokens of the plugboard specification, as the constructor scans them
PlugTokens ==
    IF Len(upper(args.plugboard)) > 0 THEN split(upper(args.plugboard)) ELSE << >>

\* the characters of the tokens before token k
EarlierChars(tokens, k) == UNION { Range(tokens[j]) : j \in 1..(k - 1) }

BadLength(token) == Len(token) # 2

NonAlphabetic(token) == \E i \in DOMAIN token : ~IsAlphaChar(token[i])

ReusesLetter(tokens, k) ==
    \E i \in DOMAIN tokens[k] :
        IsAlphaChar(tokens[k][i]) /\ tokens[k][i] \in EarlierChars(tokens, k)

Offending(tokens) ==
    { k \in DOMAIN tokens :
        BadLength(tokens[k]) \/ NonAlphabetic(tokens[k]) \/ ReusesLetter(tokens, k) }

FirstOffending(tokens) ==
    CHOOSE k \in Offending(tokens) : \A j \in Offending(tokens) : k <= j

\* the error C5 expects for the first offending token: length, then
\* duplicate letter, then alphabetic content
ExpectedPlugError(tokens) ==
    LET k == FirstOffending(tokens)
    IN  IF BadLength(tokens[k]) THEN MsgPlugLength
        ELSE IF ReusesLetter(tokens, k) THEN MsgPlugDuplicate(tokens[k])
        ELSE MsgPlugLetters(tokens[k])

RingSettingsValid ==
    /\ Len(RingTokens) >= 2
    /\ RingSettingValid(RingTokens[1])
    /\ RingSettingValid(RingTokens[2])

\* C5: plugboard validation: with valid ring settings (and initial settings),
\* construction fails with a configuration error and yields no machine when
\* some token of the plugboard specification has a length other than 2,
\* contains a non-alphabetic character, or contains a letter of an earlier
\* token; the error is that of the first such token, decided in the order
\* length, duplicate letter, alphabetic content ("AB A1": duplicate letter).
C5_PlugValidation ==
    ( /\ args # NoArgs
      /\ RingSettingsValid
      /\ TwoInitialLetters ) =>
         \A tokens \in { PlugTokens } :
            Offending(tokens) # {} =>
               /\ ~enigma.built
               /\ ConfigurationError(error)
               /\ error.msg = ExpectedPlugError(tokens)

\* "AB A1" was rejected for the duplicate letter
C5_Witness ==
    /\ args.plugboard = << "A", "B", " ", "A", "1" >>
    /\ RingSettingsValid
    /\ ~enigma.built
    /\ error = ValueError(MsgPlugDuplicate(<< "A", "1" >>))

\* the number of places (token, position) of the specification that hold c
Occurrences(tokens, c) ==
    Cardinality({ p \in (DOMAIN tokens) \X (1..MaxPlugLen + 1) :
                    p[2] \in DOMAIN tokens[p[1]] /\ tokens[p[1]][p[2]] = c })

AllChars(tokens) == UNION { Range(tokens[k]) : k \in DOMAIN tokens }

\* C6 as stated: every plugboard specification in which some letter occurs
\* more than once, both positions of every token counted (twice inside one
\* token included), is rejected at construction with a configuration error.
C6_AnyRepeatRejected ==
    args # NoArgs =>
        \A tokens \in { PlugTokens } :
           (\E c \in AllChars(tokens) : IsAlphaChar(c) /\ Occurrences(tokens, c) > 1)
              => ~enigma.built /\ ConfigurationError(error)

\* C6 as amended: every plugboard specification in which some letter occurs
\* in two different tokens is rejected at construction with a configuration
\* error; a token that names one letter twice ("AA") is no reason to reject:
\* when no token is malformed and no letter occurs in two different tokens
\* (ring and initial settings valid), construction succeeds and such a letter
\* maps to itself.
C6_RepeatAcrossTokensRejected ==
    args # NoArgs =>
        \A tokens \in { PlugTokens } :
           /\ (\E j, k \in DOMAIN tokens :
                  /\ j # k
                  /\ \E c \in Range(tokens[j]) \cap Range(tokens[k]) : IsAlphaChar(c))
                => ~enigma.built /\ ConfigurationError(error)
           /\ (RingSettingsValid /\ TwoInitialLetters /\ Offending(tokens) = {})
                => /\ enigma.built
                   /\ \A k \in DOMAIN tokens :
                         tokens[k][1] = tokens[k][2] =>
                             enigma.plugboard[tokens[k][1]] = tokens[k][1]

\* "AB BA" was rejected for the duplicate letter
C6_Witness ==
    /\ args.plugboard = << "A", "B", " ", "B", "A" >>
    /\ RingSettingsValid
    /\ ~enigma.built
    /\ error = ValueError(MsgPlugDuplicate(<< "B", "A" >>))

\* C7: the plugboard after every successful construction, for any accepted
\* plugboard specification: its keys are exactly the 26 letters A-Z, each
\* mapped to one letter; the mapping is its own inverse; each token XY gives
\* X -> Y and Y -> X; every letter no token names maps to itself.
C7_PlugboardInvariant ==
    enigma.built =>
        \A tokens \in { PlugTokens } :
           /\ DOMAIN enigma.plugboard = Letters
           /\ \A l \in Letters : enigma.plugboard[l] \in Letters
           /\ \A l \in Letters : enigma.plugboard[enigma.plugboard[l]] = l
           /\ \A k \in DOMAIN tokens :
                 /\ enigma.plugboard[tokens[k][1]] = tokens[k][2]
                 /\ enigma.plugboard[tokens[k][2]] = tokens[k][1]
           /\ \A l \in Letters \ AllChars(tokens) : enigma.plugboard[l] = l

=============================================================================
